---- MODULE Spec2Model ----
(***************************************************************************)
(* Model of modules/GUI/home.py: the App object built on every script run  *)
(* (App.__init__ and App.initial_request), the Streamlit session store it  *)
(* reads and writes, and the dataframes handed back by the two fetchers.   *)
(*                                                                         *)
(* Python strings that the code formats, splits or searches are sequences  *)
(* of one-character strings; type_local values are compared through their  *)
(* code points, as Python's sorted() does.                                 *)
(***************************************************************************)
EXTENDS Integers, Sequences, FiniteSets, TLC

VARIABLES
    session_state,  \* st.session_state: stored key -> value
    frames,         \* heap of dataframe objects: reference -> rows
    app,            \* attributes of the App object of the last script run
    calls,          \* fetcher calls of the last run, with what they returned
    errors,         \* st.sidebar.error messages of the last run
    plots,          \* what create_plots was run on in the last run
    raised,         \* exception that ended the last run, "none" otherwise
    deleted         \* keys the last run deleted from st.session_state

vars == <<session_state, frames, app, calls, errors, plots, raised, deleted>>

(***************************************************************************)
(* Bounds of the model.                                                    *)
(***************************************************************************)
MaxRows == 2
NDepts == 2

(***************************************************************************)
(* String helpers.                                                         *)
(***************************************************************************)
Range(s) == {s[i] : i \in DOMAIN s}

DigitChars == <<"0", "1", "2", "3", "4", "5", "6", "7", "8", "9">>

RECURSIVE Str(_)
Str(n) == IF n < 10 THEN <<DigitChars[n + 1]>>
          ELSE Str(n \div 10) \o <<DigitChars[(n % 10) + 1]>>

RECURSIVE zfill(_, _)
zfill(s, width) == IF Len(s) >= width THEN s ELSE zfill(<<"0">> \o s, width)

\* list.remove(x): drops the first occurrence of x
RECURSIVE ListRemove(_, _)
ListRemove(s, x) ==
    IF s = <<>> THEN <<>>
    ELSE IF Head(s) = x THEN Tail(s)
    ELSE <<Head(s)>> \o ListRemove(Tail(s), x)

\* s.split(" ")[-1]: what follows the last blank of s
RECURSIVE SplitLast(_)
SplitLast(s) ==
    IF s = <<>> THEN <<>>
    ELSE IF s[Len(s)] = " " THEN <<>>
    ELSE SplitLast(SubSeq(s, 1, Len(s) - 1)) \o <<s[Len(s)]>>

\* needle in s (substring test)
Contains(needle, s) ==
    \E i \in 1..(Len(s) - Len(needle) + 1) :
        SubSeq(s, i, i + Len(needle) - 1) = needle

(***************************************************************************)
(* The selectbox options built by initial_request.                         *)
(***************************************************************************)
departments ==
    LET base == [i \in 1..95 |-> zfill(Str(i), 2)]
        removed == ListRemove(base, <<"2", "0">>)
    IN  removed \o << <<"9", "7", "1">>, <<"9", "7", "2">>, <<"9", "7", "3">>,
                      <<"9", "7", "4">>, <<"2", "A">>, <<"2", "B">> >>

\* data_URL().get("available_years_datagouv"): closed years and the live one
available_years_datagouv == <<2022, 2023, 2024>>

VendusEn == <<"V", "e", "n", "d", "u", "s", " ", "e", "n", " ">>

years == [i \in DOMAIN available_years_datagouv |->
              VendusEn \o Str(available_years_datagouv[i])]

LiveYear == <<"2", "0", "2", "4">>

bigquery_cred == "bigquery_cred"

(***************************************************************************)
(* Session store: a function from the stored keys to their values.         *)
(***************************************************************************)
PostcodeKeys == {"selected_postcode", "selected_postcode_title"}

Postcodes == {<<"0", "6", "0", "0", "0">>}

\* del st.session_state.<key>: removes the key, raises when it is absent
DelKey(store, key) ==
    IF key \in DOMAIN store
    THEN [store |-> [k \in DOMAIN store \ {key} |-> store[k]], err |-> "none"]
    ELSE [store |-> store, err |-> "AttributeError"]

SetKey(store, key, value) ==
    [k \in DOMAIN store \cup {key} |-> IF k = key THEN value ELSE store[k]]

\* guarded deletion "if key in st.session_state: del st.session_state.key"
DelIfPresent(res, key) ==
    IF res.err # "none" THEN res
    ELSE IF key \in DOMAIN res.store THEN DelKey(res.store, key)
    ELSE res

\* lines 107-119 with the two guards dropped
Invalidate_unguarded(store, dept) ==
    LET changed == /\ "previous_selected_department" \in DOMAIN store
                   /\ store["previous_selected_department"] # dept
        d1 == IF changed THEN DelKey(store, "selected_postcode_title")
              ELSE [store |-> store, err |-> "none"]
        d2 == IF changed /\ d1.err = "none"
              THEN DelKey(d1.store, "selected_postcode")
              ELSE d1
    IN  IF d2.err # "none" THEN d2
        ELSE [store |-> SetKey(d2.store, "previous_selected_department", dept),
              err |-> "none"]

\* lines 107-119 with the deletions dropped
Invalidate_keep(store, dept) ==
    [store |-> SetKey(store, "previous_selected_department", dept),
     err |-> "none"]

\* lines 107-119: reset the postcode when the department has changed
Invalidate(store, dept) ==
    LET changed == /\ "previous_selected_department" \in DOMAIN store
                   /\ store["previous_selected_department"] # dept
        d1 == IF changed
              THEN DelIfPresent([store |-> store, err |-> "none"],
                                "selected_postcode_title")
              ELSE [store |-> store, err |-> "none"]
        d2 == IF changed THEN DelIfPresent(d1, "selected_postcode") ELSE d1
    IN  IF d2.err # "none" THEN d2
        ELSE [store |-> SetKey(d2.store, "previous_selected_department", dept),
              err |-> "none"]

(***************************************************************************)
(* Dataframes.  A dataframe is a sequence of rows; frames is the heap of   *)
(* dataframe objects: "archive" and "live" are the objects the two         *)
(* fetchers hand back, "copy" is the object made by DataFrame.copy().      *)
(***************************************************************************)
Prices == {150000, 125, 75}

Areas == {0, 50}

TypeNames == {"Appartement", "Maison"}

Rows == [valeur_fonciere : Prices, surface_reelle_bati : Areas,
         type_local : TypeNames]

SeqsUpTo(S, n) == UNION {[1..k -> S] : k \in 0..n}

ArchiveFrames == SeqsUpTo(Rows, MaxRows)

LiveFrames ==
    {<<>>, <<[valeur_fonciere |-> 150000, surface_reelle_bati |-> 50,
              type_local |-> "Appartement"]>>}

\* the frames of the selection specification
SampleArchive ==
    <<[valeur_fonciere |-> 150000, surface_reelle_bati |-> 50,
       type_local |-> "Maison"]>>

FetchedRefs == {"archive", "live"}

\* code points of the type_local values
CodePoints ==
    ("Appartement" :> <<65, 112, 112, 97, 114, 116, 101, 109, 101, 110, 116>>)
    @@ ("Maison" :> <<77, 97, 105, 115, 111, 110>>)

\* Python's < on str: lexicographic on code points
RECURSIVE SeqLess(_, _)
SeqLess(a, b) ==
    IF b = <<>> THEN FALSE
    ELSE IF a = <<>> THEN TRUE
    ELSE IF Head(a) # Head(b) THEN Head(a) < Head(b)
    ELSE SeqLess(Tail(a), Tail(b))

StrLess(s, t) == SeqLess(CodePoints[s], CodePoints[t])

\* Series.unique(): the distinct values in order of first appearance
RECURSIVE Unique(_)
Unique(s) ==
    IF s = <<>> THEN <<>>
    ELSE LET init == Unique(SubSeq(s, 1, Len(s) - 1))
             last == s[Len(s)]
         IN  IF last \in Range(init) THEN init ELSE init \o <<last>>

\* insertion of x into an ascending list
RECURSIVE Insert(_, _)
Insert(x, s) ==
    IF s = <<>> THEN <<x>>
    ELSE IF StrLess(x, Head(s)) THEN <<x>> \o s
    ELSE <<Head(s)>> \o Insert(x, Tail(s))

\* sorted() left out
sorted_identity(s) == s

\* sorted(): ascending order
RECURSIVE sorted(_)
sorted(s) == IF s = <<>> THEN <<>> ELSE Insert(Head(s), sorted(Tail(s)))

Column(df, name) == [i \in DOMAIN df |-> df[i][name]]

\* line 149: sorted(self.properties_input["type_local"].unique())
LocalTypes(df) == sorted(Unique(Column(df, "type_local")))

\* an aliasing copy: the same object is handed back
CopyFrame_alias(heap, ref) == [heap |-> heap, ref |-> ref]

\* line 146: DataFrame.copy() allocates a new object with the same rows
CopyFrame(heap, ref) ==
    [heap |-> [k \in DOMAIN heap \cup {"copy"} |->
                   IF k = "copy" THEN heap[ref] ELSE heap[k]],
     ref |-> "copy"]

\* truncating division
Round_trunc(v, s) == v \div s

\* Series.round() of v / s for v >= 0, s > 0: to nearest, ties to even
Round(v, s) ==
    LET q == v \div s
        r == v % s
    IN  IF 2 * r < s THEN q
        ELSE IF 2 * r > s THEN q + 1
        ELSE IF q % 2 = 0 THEN q ELSE q + 1

\* lines 160-168: the division yields inf or NaN on a zero area and astype(int)
\* then raises before the column is assigned
Normalize(df) ==
    IF \E i \in DOMAIN df : df[i].surface_reelle_bati = 0
    THEN [df |-> df, err |-> "ValueError"]
    ELSE [df |-> [i \in DOMAIN df |->
                     [df[i] EXCEPT !.valeur_fonciere =
                          Round(df[i].valeur_fonciere,
                                df[i].surface_reelle_bati)]],
          err |-> "none"]

\* both fetchers called
LoadCalls_both(dept, year) ==
    << [fn |-> "fetch_data_gouv", args |-> <<dept, year>>],
       [fn |-> "fetch_data_BigQuery", args |-> <<bigquery_cred, dept>>] >>

\* lines 134-142: the fetcher call made for (department, year)
LoadCalls(dept, year) ==
    IF ~Contains(LiveYear, year)
    THEN << [fn |-> "fetch_data_gouv", args |-> <<dept, year>>] >>
    ELSE << [fn |-> "fetch_data_BigQuery", args |-> <<bigquery_cred, dept>>] >>

\* the object a fetcher hands back when it has data
FetchedRef(call) == IF call.fn = "fetch_data_gouv" THEN "archive" ELSE "live"

NoInfo(dept, year) ==
    [template |-> "Pas d'information disponible pour le departement {} en {}. Selectionnez une autre configuration.",
     args |-> <<dept, year>>]

\* line 64: isinstance(self.properties_input, pd.DataFrame)
IsDataFrame(x) == x # "None"

\* the gate of create_plots with the isinstance test inverted into a bypass
ShouldPlot_bypass(a) ==
    \/ ~IsDataFrame(a["properties_input"])
    \/ a["local_types"] # <<>>

\* lines 64-66: create_plots runs on a dataframe with a non-empty type list
ShouldPlot(a) ==
    /\ IsDataFrame(a["properties_input"])
    /\ a["local_types"] # <<>>

\* lines 64-72: the sidebar error is shown on a dataframe with no type
ShowsError(a) ==
    /\ IsDataFrame(a["properties_input"])
    /\ a["local_types"] = <<>>

\* st.selectbox returns one of its options, None when there is none
Options(types) == IF types = <<>> THEN {"None"} ELSE Range(types)

(***************************************************************************)
(* Initial states: no script run yet.  init_session_state and the widgets  *)
(* of earlier pages may have stored a postcode; no department is stored.   *)
(***************************************************************************)
InitCommon ==
    /\ session_state \in UNION {[S -> Postcodes] : S \in SUBSET PostcodeKeys}
    /\ app = <<>>
    /\ calls = <<>>
    /\ errors = <<>>
    /\ plots = <<>>
    /\ raised = "none"
    /\ deleted = {}

Init ==
    /\ InitCommon
    /\ frames = [archive |-> SampleArchive, live |-> <<>>]

InitData ==
    /\ InitCommon
    /\ session_state = <<>>
    /\ frames \in [archive : ArchiveFrames, live : LiveFrames]

\* the state left by one script run
Commit(store, heap, a, cs, errs, pl, exc) ==
    /\ session_state' = store
    /\ frames' = heap
    /\ app' = a
    /\ calls' = cs
    /\ errors' = errs
    /\ plots' = pl
    /\ raised' = exc
    /\ deleted' = DOMAIN session_state \ DOMAIN store

\* lines 64-72: the end of App.__init__
Finish(store, heap, a, cs) ==
    Commit(store, heap, a, cs,
           IF ShowsError(a)
           THEN <<NoInfo(a["selected_department"], a["selected_year"])>>
           ELSE <<>>,
           IF ShouldPlot(a) THEN <<a["properties_input"]>> ELSE <<>>,
           "none")

(***************************************************************************)
(* One script run: App() builds a new object, initial_request reads the    *)
(* widgets (dept, label, normalize are the user's picks, avail tells       *)
(* whether the fetcher has data), then __init__ plots or reports.  Each    *)
(* intermediate value is bound once, in the order the code computes it.    *)
(***************************************************************************)
Evaluate(dept, label, normalize, avail) ==
    \E inv \in {Invalidate(session_state, dept)},
       heap0 \in {[k \in DOMAIN frames \cap FetchedRefs |-> frames[k]]},
       a0 \in {("data_loaded" :> TRUE) @@ ("selected_department" :> dept)} :
      IF inv.err # "none"
      THEN Commit(inv.store, heap0, a0, <<>>, <<>>, <<>>, inv.err)
      ELSE
        \E year \in {SplitLast(label)} :
        \E made \in {LoadCalls(dept, year)} :
        \E cs \in {[i \in DOMAIN made |->
                      [fn |-> made[i].fn, args |-> made[i].args,
                       returned |-> IF avail THEN FetchedRef(made[i])
                                    ELSE "None"]]} :
        \E result \in {cs[Len(cs)].returned},
           a1 \in {("selected_year" :> year) @@ a0} :
          IF result = "None"
          THEN Finish(inv.store, heap0,
                      ("properties_input" :> "None") @@ a1, cs)
          ELSE
            \E cp \in {CopyFrame(heap0, result)} :
            \E types \in {LocalTypes(cp.heap[cp.ref])},
               nz \in {IF normalize THEN Normalize(cp.heap[cp.ref])
                       ELSE [df |-> cp.heap[cp.ref], err |-> "none"]} :
            \E heap2 \in {[cp.heap EXCEPT ![cp.ref] = nz.df]},
               pick \in Options(types) :
            \E a2 \in {("properties_input" :> cp.ref)
                        @@ ("local_types" :> types)
                        @@ ("selected_local_type" :> pick)
                        @@ ("normalize_by_area" :> normalize)
                        @@ a1} :
              IF nz.err # "none"
              THEN Commit(inv.store, heap2, a2, cs, <<>>, <<>>, nz.err)
              ELSE Finish(inv.store, heap2, a2, cs)

\* the plotting layer stores the postcode picked on the rendered map
SetPostcode(key, value) ==
    /\ plots # <<>>
    /\ session_state' = SetKey(session_state, key, value)
    /\ UNCHANGED <<frames, app, calls, errors, plots, raised, deleted>>

\* every department and year; the "Prix au m2" checkbox keeps its default
Next ==
    \/ \E dept \in Range(departments), label \in Range(years),
          normalize \in {TRUE}, avail \in BOOLEAN :
           Evaluate(dept, label, normalize, avail)
    \/ \E key \in PostcodeKeys, value \in Postcodes : SetPostcode(key, value)

Spec == Init /\ [][Next]_vars

\* the departments picked in the dataframe specification
SomeDepartments == {departments[i] : i \in 1..NDepts}

\* every dataframe and both values of the checkbox, no stored postcode
NextData ==
    \E dept \in SomeDepartments, label \in Range(years),
       normalize \in BOOLEAN, avail \in BOOLEAN :
        Evaluate(dept, label, normalize, avail)

SpecData == InitData /\ [][NextData]_vars

(***************************************************************************)
(* Properties.                                                             *)
(***************************************************************************)
\* a script run has happened
Ran == "selected_department" \in DOMAIN app

\* what the fetcher of the last run handed back
Returned == calls[Len(calls)].returned

\* the last run asked a fetcher and got nothing
Unavailable == Ran /\ calls # <<>> /\ Returned = "None"

\* the last run asked a fetcher and got a dataframe
Fetched == Ran /\ calls # <<>> /\ Returned # "None"

\* p is v / s rounded to the nearest integer, ties to the even one
IsRounded(p, v, s) ==
    LET d == IF v >= p * s THEN v - p * s ELSE p * s - v
    IN  /\ 2 * d <= s
        /\ (2 * d = s => p % 2 = 0)

\* C1: between two consecutive runs a changed department leaves neither
\* postcode key in the store, an unchanged one removes neither of them
C1_DepartmentChangeClearsPostcode ==
    [][(Ran /\ "selected_department" \in DOMAIN app')
        => IF app'["selected_department"] # app["selected_department"]
           THEN PostcodeKeys \cap DOMAIN session_state' = {}
           ELSE PostcodeKeys \cap DOMAIN session_state
                    \subseteq DOMAIN session_state']_vars

\* a run that followed a department change deleted both postcode keys
C1_Witness ==
    /\ Ran
    /\ deleted = PostcodeKeys
    /\ PostcodeKeys \cap DOMAIN session_state = {}

\* C2: every run calls exactly one fetcher, once: fetch_data_gouv with
\* (department, year) for a past year, fetch_data_BigQuery with
\* (credentials, department) for the live year
C2_ExactlyOneFetcher ==
    Ran =>
      /\ Len(calls) = 1
      /\ IF app["selected_year"] = LiveYear
         THEN /\ calls[1].fn = "fetch_data_BigQuery"
              /\ calls[1].args[1] = bigquery_cred
              /\ calls[1].args[2] = app["selected_department"]
         ELSE /\ calls[1].fn = "fetch_data_gouv"
              /\ calls[1].args
                   = <<app["selected_department"], app["selected_year"]>>

\* the live year was picked for the last department of the list
C2_Witness ==
    /\ Ran
    /\ app["selected_department"] = <<"2", "B">>
    /\ app["selected_year"] = LiveYear
    /\ Len(calls) = 1
    /\ calls[1].fn = "fetch_data_BigQuery"

\* C3: when the fetcher returns None, no type list, type pick or
\* normalization is made and create_plots does not run
C3_UnavailableSkipsPipeline ==
    Unavailable =>
      /\ DOMAIN app \cap {"local_types", "selected_local_type",
                          "normalize_by_area"} = {}
      /\ app["properties_input"] = "None"
      /\ frames = [k \in FetchedRefs |-> frames[k]]
      /\ plots = <<>>

\* a run whose fetcher returned None
C3_Witness ==
    /\ Unavailable
    /\ plots = <<>>
    /\ "copy" \notin DOMAIN frames

\* C4: when the fetcher returns None, the error naming the department and
\* the year is shown and the run ends without an exception
C4_UnavailableShowsError ==
    Unavailable =>
      /\ errors = <<NoInfo(app["selected_department"], app["selected_year"])>>
      /\ raised = "none"

\* C10: after every run the stored previous department is the selected one;
\* a run that finds no previous department deletes nothing; no run raises
\* on an absent postcode key
C10_PreviousDepartmentStored ==
    /\ [](Ran =>
            /\ raised # "AttributeError"
            /\ "previous_selected_department" \in DOMAIN session_state
            /\ session_state["previous_selected_department"]
                 = app["selected_department"])
    /\ [][("previous_selected_department" \notin DOMAIN session_state)
           => /\ deleted' = {}
              /\ \A k \in DOMAIN session_state :
                    /\ k \in DOMAIN session_state'
                    /\ session_state'[k] = session_state[k]]_vars

\* a run deleted nothing from a store holding both postcode keys
C10_Witness ==
    /\ Ran
    /\ deleted = {}
    /\ PostcodeKeys \subseteq DOMAIN session_state
    /\ session_state["previous_selected_department"]
         = app["selected_department"]

\* the rows the fetcher handed back in the last run
RawRows == frames[Returned]

\* the rows create_plots was run on
PlottedRows == frames[plots[1]]

\* C5: with normalization on, a fetched row of area 0 is left out of the
\* result and the run goes on with the other rows instead of ending on an
\* exception
C5_ZeroAreaExcluded ==
    (/\ Fetched
     /\ app["normalize_by_area"]
     /\ \E i \in DOMAIN RawRows : RawRows[i].surface_reelle_bati <= 0)
    => /\ raised = "none"
       /\ \A i \in DOMAIN frames[app["properties_input"]] :
             frames[app["properties_input"]][i].surface_reelle_bati > 0

\* C6: no run modifies a fetched dataframe, and the rows handed to
\* create_plots carry the raw price with the flag off and the raw price
\* divided once by the area, rounded, with the flag on
C6_FetchedNeverModified ==
    /\ [][\A k \in FetchedRefs : frames'[k] = frames[k]]_vars
    /\ [](plots # <<>> =>
            /\ plots[1] \notin FetchedRefs
            /\ Len(PlottedRows) = Len(RawRows)
            /\ \A i \in DOMAIN RawRows :
                  IF app["normalize_by_area"]
                  THEN IsRounded(PlottedRows[i].valeur_fonciere,
                                 RawRows[i].valeur_fonciere,
                                 RawRows[i].surface_reelle_bati)
                  ELSE PlottedRows[i].valeur_fonciere
                         = RawRows[i].valeur_fonciere)

\* a normalized run whose copy differs from the fetched rows
C6_Witness ==
    /\ plots # <<>>
    /\ app["normalize_by_area"]
    /\ PlottedRows # RawRows
    /\ \E i \in DOMAIN RawRows :
          /\ RawRows[i].valeur_fonciere = 150000
          /\ PlottedRows[i].valeur_fonciere = 3000

\* C7: with normalization on, every row of positive area handed to
\* create_plots has the price round(valeur_fonciere / surface_reelle_bati)
\* (150000 and 50 give 3000) and its other fields as fetched
C7_NormalizedPrice ==
    (plots # <<>> /\ app["normalize_by_area"]) =>
      /\ DOMAIN PlottedRows = DOMAIN RawRows
      /\ \A i \in DOMAIN RawRows :
            RawRows[i].surface_reelle_bati > 0 =>
              /\ IsRounded(PlottedRows[i].valeur_fonciere,
                           RawRows[i].valeur_fonciere,
                           RawRows[i].surface_reelle_bati)
              /\ PlottedRows[i].surface_reelle_bati
                   = RawRows[i].surface_reelle_bati
              /\ PlottedRows[i].type_local = RawRows[i].type_local
              /\ ((/\ RawRows[i].valeur_fonciere = 150000
                   /\ RawRows[i].surface_reelle_bati = 50)
                  => PlottedRows[i].valeur_fonciere = 3000)

\* rows 150000 / 50 and 75 / 50 were normalized to 3000 and 2
C7_Witness ==
    /\ plots # <<>>
    /\ app["normalize_by_area"]
    /\ Len(RawRows) = 2
    /\ RawRows[1].valeur_fonciere = 150000
    /\ RawRows[1].surface_reelle_bati = 50
    /\ PlottedRows[1].valeur_fonciere = 3000
    /\ RawRows[2].valeur_fonciere = 75
    /\ PlottedRows[2].valeur_fonciere = 2

\* C8: a fetched dataframe with no type shows the error naming department
\* and year and create_plots does not run; with a type, create_plots runs
\* and the error is not shown
C8_EmptyTypeSetReported ==
    Fetched =>
      IF app["local_types"] = <<>>
      THEN /\ errors = <<NoInfo(app["selected_department"],
                                app["selected_year"])>>
           /\ plots = <<>>
      ELSE /\ plots # <<>>
           /\ errors = <<>>

\* C9: in every run that fetched a dataframe, local_types holds exactly the
\* type_local values of that dataframe, in strictly ascending order
C9_LocalTypesSorted ==
    Fetched =>
      /\ Range(app["local_types"])
           = {RawRows[i].type_local : i \in DOMAIN RawRows}
      /\ \A i \in 1..(Len(app["local_types"]) - 1) :
            StrLess(app["local_types"][i], app["local_types"][i + 1])

\* rows typed Maison then Appartement give the list Appartement, Maison
C9_Witness ==
    /\ Fetched
    /\ Len(RawRows) = 2
    /\ RawRows[1].type_local = "Maison"
    /\ RawRows[2].type_local = "Appartement"
    /\ app["local_types"] = <<"Appartement", "Maison">>

====
